---- MODULE Spec2Model ----
(***************************************************************************)
(* SecurePOS: the backend's mock BlockchainService with the Express        *)
(* routes that call it (every await of a handler is a point where other    *)
(* requests may run), and the contract module SecurePOSModule.             *)
(*                                                                         *)
(* Abstractions:                                                           *)
(*  - strings are TLA+ strings; Map keys and file names are built by the   *)
(*    same concatenations as the template literals of the source;          *)
(*  - file contents are short strings and sha256hex is a collision-free    *)
(*    tagging of the content (the hash primitive itself is not modelled);  *)
(*  - Date.now() is the variable now, advanced by Tick.                    *)
(***************************************************************************)
EXTENDS Integers, Sequences, FiniteSets, TLC

\* ------------------------------------------------------------------ bounds
MaxTime == 1          \* Date.now() ranges over 0..MaxTime
NumSlots == 2         \* requests the server receives in one run
MaxCalls == 3         \* endpoint calls on SecurePOSModule in one run

\* ------------------------------------------------------- seeded identities
ADMIN   == "lsk24cd35u4jdq8szo4pnsqe5dsxwrnazyqqqg5eu"
AUDITOR == "lsk2a8h3k9j4m5n6p7q8r9s0t1u2v3w4x5y6z7a8b"
CASHIER == "lsk3b9i4k0j5m6n7p8q9r0s1t2u3v4w5x6y7z8a9c"

Addresses == {ADMIN, AUDITOR, CASHIER}

\* a well-formed address that is not among the seeded identities
STRANGER == "lsk99999999999999999999999999999999999999"
Roles     == {"admin", "auditor", "cashier"}
Undefined == "undefined"

\* inputs of the requests
StoreIds  == {"S1", "S1:A", "S1_A"}
Dates     == {"D1", "A:D1", "A_D1"}
Contents  == {"B" \o ToString(i) : i \in 1..NumSlots}   \* one per request
NoFile    == ""
Slots     == 1..NumSlots

VARIABLES
  mockUsers,          \* BlockchainService.mockUsers: address -> role
  mockSalesRecords,   \* BlockchainService.mockSalesRecords: key -> record
  now,                \* Date.now()
  reqs,               \* the requests, one per slot
  uploads,            \* storage/sales: file name -> content
  metadata,           \* storage/metadata: file name -> metadata
  auditLogs,          \* storage/audit-logs: file name -> audit event
  adminLogs,          \* storage/admin-logs: file name -> admin action
  userRoles,          \* SecurePOSModule.userRoles: address -> UserRole
  adminAddresses,     \* SecurePOSModule.adminAddresses
  salesRecords,       \* SecurePOSModule.salesRecords: key -> SalesRecord
  ret,                \* result of the last SecurePOSModule endpoint call
  calls               \* number of endpoint calls made on SecurePOSModule

svcVars      == <<mockUsers, mockSalesRecords>>
fileVars     == <<uploads, metadata, auditLogs, adminLogs>>
backendVars  == <<mockUsers, mockSalesRecords, reqs, uploads, metadata,
                  auditLogs, adminLogs>>
contractVars == <<userRoles, adminAddresses, salesRecords, ret, calls>>
vars == <<mockUsers, mockSalesRecords, now, reqs, uploads, metadata,
          auditLogs, adminLogs, userRoles, adminAddresses, salesRecords, ret, calls>>

\* ------------------------------------------------------------ Map helpers
EmptyMap == [k \in {} |-> Undefined]
MapHas(m, k) == k \in DOMAIN m
MapSet(m, k, v) == [x \in DOMAIN m \cup {k} |-> IF x = k THEN v ELSE m[x]]
MapDelete(m, k) == [x \in DOMAIN m \ {k} |-> m[x]]

\* mockUsers.get(address): the role, or undefined
UsersGet(m, a) == IF a \in DOMAIN m THEN m[a] ELSE Undefined

\* `${storeId}:${date}`
RecordKey(storeId, date) == storeId \o ":" \o date

\* crypto.createHash('sha256').update(buffer).digest('hex')
sha256hex(bytes) == "sha256:" \o bytes

NoRecord == [storeId |-> "", date |-> "", hash |-> "", timestamp |-> -1, submittedBy |-> ""]

\* mockSalesRecords.get(key): the record, or NoRecord for undefined
RecordsGet(m, k) == IF k \in DOMAIN m THEN m[k] ELSE NoRecord

\* BlockchainResponse
Response(ok, msg) == [success |-> ok, message |-> msg, data |-> NoRecord]
NoResponse == [success |-> FALSE, message |-> "", data |-> NoRecord]

\* ------------------------------------------------------ BlockchainService
\* Each operator gives the response of the call and the maps after it.
\* The operators named x_variant are faulty variants of x, used to show that
\* the checked properties depend on x.

submitSalesHash_noRoleCheck(storeId, date, hash, senderAddress) ==
  LET key == RecordKey(storeId, date) IN
  IF MapHas(mockSalesRecords, key)
  THEN [res |-> Response(FALSE, "Sales record already exists for this date"),
        records |-> mockSalesRecords]
  ELSE [res |-> Response(TRUE, "Sales hash submitted successfully"),
        records |-> MapSet(mockSalesRecords, key,
                      [storeId |-> storeId, date |-> date, hash |-> hash,
                       timestamp |-> now, submittedBy |-> senderAddress])]

submitSalesHash_overwrite(storeId, date, hash, senderAddress) ==
  LET key == RecordKey(storeId, date) IN
  IF UsersGet(mockUsers, senderAddress) # "cashier"
  THEN [res |-> Response(FALSE, "Unauthorized: Cashier role required"),
        records |-> mockSalesRecords]
  ELSE IF MapHas(mockSalesRecords, key) /\ mockSalesRecords[key].hash = hash
  THEN [res |-> Response(FALSE, "Sales record already exists for this date"),
        records |-> mockSalesRecords]
  ELSE [res |-> Response(TRUE, "Sales hash submitted successfully"),
        records |-> MapSet(mockSalesRecords, key,
                      [storeId |-> storeId, date |-> date, hash |-> hash,
                       timestamp |-> now, submittedBy |-> senderAddress])]

submitSalesHash_upsert(storeId, date, hash, senderAddress) ==
  LET key == RecordKey(storeId, date) IN
  IF UsersGet(mockUsers, senderAddress) # "cashier"
  THEN [res |-> Response(FALSE, "Unauthorized: Cashier role required"),
        records |-> mockSalesRecords]
  ELSE [res |-> Response(TRUE, "Sales hash submitted successfully"),
        records |-> MapSet(mockSalesRecords, key,
                      [storeId |-> storeId, date |-> date, hash |-> hash,
                       timestamp |-> now, submittedBy |-> senderAddress])]

submitSalesHash(storeId, date, hash, senderAddress) ==
  LET key == RecordKey(storeId, date) IN
  IF UsersGet(mockUsers, senderAddress) # "cashier"
  THEN [res |-> Response(FALSE, "Unauthorized: Cashier role required"),
        records |-> mockSalesRecords]
  ELSE IF MapHas(mockSalesRecords, key)
  THEN [res |-> Response(FALSE, "Sales record already exists for this date"),
        records |-> mockSalesRecords]
  ELSE [res |-> Response(TRUE, "Sales hash submitted successfully"),
        records |-> MapSet(mockSalesRecords, key,
                      [storeId |-> storeId, date |-> date, hash |-> hash,
                       timestamp |-> now, submittedBy |-> senderAddress])]

getSalesHash(storeId, date) ==
  LET key == RecordKey(storeId, date)
      record == RecordsGet(mockSalesRecords, key) IN
  IF ~MapHas(mockSalesRecords, key)
  THEN Response(FALSE, "No sales record found")
  ELSE [success |-> TRUE, message |-> "Record found", data |-> record]

addUser_noReplace(userAddress, role, senderAddress) ==
  IF UsersGet(mockUsers, senderAddress) # "admin"
  THEN [res |-> Response(FALSE, "Unauthorized: Admin role required"),
        users |-> mockUsers]
  ELSE [res |-> Response(TRUE, "User added to " \o role \o " role successfully"),
        users |-> IF MapHas(mockUsers, userAddress) THEN mockUsers
                  ELSE MapSet(mockUsers, userAddress, role)]

addUser(userAddress, role, senderAddress) ==
  IF UsersGet(mockUsers, senderAddress) # "admin"
  THEN [res |-> Response(FALSE, "Unauthorized: Admin role required"),
        users |-> mockUsers]
  ELSE [res |-> Response(TRUE, "User added to " \o role \o " role successfully"),
        users |-> MapSet(mockUsers, userAddress, role)]

removeUser_noRoleCheck(userAddress, senderAddress) ==
  IF MapHas(mockUsers, userAddress)
  THEN [res |-> Response(TRUE, "User removed successfully"),
        users |-> MapDelete(mockUsers, userAddress)]
  ELSE [res |-> Response(FALSE, "User not found"), users |-> mockUsers]

removeUser_noop(userAddress, senderAddress) ==
  IF UsersGet(mockUsers, senderAddress) # "admin"
  THEN [res |-> Response(FALSE, "Unauthorized: Admin role required"),
        users |-> mockUsers]
  ELSE [res |-> Response(TRUE, "User removed successfully"),
        users |-> MapDelete(mockUsers, userAddress)]

removeUser(userAddress, senderAddress) ==
  IF UsersGet(mockUsers, senderAddress) # "admin"
  THEN [res |-> Response(FALSE, "Unauthorized: Admin role required"),
        users |-> mockUsers]
  ELSE IF MapHas(mockUsers, userAddress)
  THEN [res |-> Response(TRUE, "User removed successfully"),
        users |-> MapDelete(mockUsers, userAddress)]
  ELSE [res |-> Response(FALSE, "User not found"), users |-> mockUsers]

\* faulty variant: an admin is reported to hold every role
hasRole_hierarchy(userAddress, role) ==
  LET userRole == UsersGet(mockUsers, userAddress) IN
  [success |-> TRUE, hasRole |-> (userRole = role \/ userRole = "admin"), role |-> userRole]

\* the hasRole and role fields of the response of hasRole
hasRole(userAddress, role) ==
  LET userRole == UsersGet(mockUsers, userAddress) IN
  [success |-> TRUE, hasRole |-> (userRole = role), role |-> userRole]

getAllSalesRecords_own(senderAddress) ==
  IF UsersGet(mockUsers, senderAddress) # "admin"
  THEN [success |-> FALSE, message |-> "Unauthorized: Admin role required", data |-> {}]
  ELSE [success |-> TRUE, message |-> "Records retrieved",
        data |-> {mockSalesRecords[k] : k \in {x \in DOMAIN mockSalesRecords :
                    mockSalesRecords[x].submittedBy = senderAddress}}]

getAllSalesRecords(senderAddress) ==
  IF UsersGet(mockUsers, senderAddress) # "admin"
  THEN [success |-> FALSE, message |-> "Unauthorized: Admin role required", data |-> {}]
  ELSE [success |-> TRUE, message |-> "Records retrieved",
        data |-> {mockSalesRecords[k] : k \in DOMAIN mockSalesRecords}]

getAllUsers == mockUsers

\* ------------------------------------------------------------- middleware
\* walletAddress.startsWith('lsk') && walletAddress.length === 41
WellFormed(address) == Len(address) = 41 /\ SubSeq(address, 1, 3) = "lsk"

RequiredRole(kind) ==
  CASE kind = "submit-sales" -> "cashier"
    [] kind = "verify"       -> "auditor"
    [] OTHER                 -> "admin"

\* ---------------------------------------------------------------- requests
NoOut == [status |-> 0, success |-> FALSE, message |-> ""]
NoPayload == [action |-> ""]

Idle == [pc |-> "idle", kind |-> "", addr |-> "", userRole |-> Undefined,
         storeId |-> "", date |-> "", file |-> NoFile, userAddress |-> "",
         role |-> "", chk |-> FALSE, svc |-> NoResponse, path |-> "",
         hash |-> "", logPath |-> "", payload |-> NoPayload, out |-> NoOut]

Kinds == {"submit-sales", "verify", "add-user", "remove-user", "stats"}
HeaderAddresses == Addresses \cup {STRANGER, "lsk123"}
BodyAddresses   == Addresses \cup {STRANGER, "lsk123", ""}
BodyRoles       == Roles \cup {"manager", ""}
BodyStoreIds    == StoreIds \cup {""}
BodyFiles       == Contents \cup {NoFile}
OriginalName    == "sales.csv"

\* The requests a client can send, by their x-wallet-address header. The
\* route, the body and the file are drawn where the server first reads them.
Requests(headers) ==
  {[Idle EXCEPT !.addr = a] : a \in headers}

\* res.status(status).json({success, message}) ends the request
Finish(s, r, status, ok, msg) ==
  reqs' = [reqs EXCEPT ![s] = [r EXCEPT !.pc = "done",
              !.out = [status |-> status, success |-> ok, message |-> msg]]]

Goto(s, r, pc) == reqs' = [reqs EXCEPT ![s] = [r EXCEPT !.pc = pc]]

\* ------------------------------------------------------------- file names
SafeChars == {"a","b","c","d","e","f","g","h","i","j","k","l","m","n","o","p",
              "q","r","s","t","u","v","w","x","y","z","0","1","2","3","4","5",
              "6","7","8","9",".","-","A","B","C","D","S"}

\* file.originalname.replace(/[^a-zA-Z0-9.-]/g, '_')
RECURSIVE Sanitize(_)
Sanitize(name) ==
  IF name = "" THEN ""
  ELSE (IF SubSeq(name, 1, 1) \in SafeChars THEN SubSeq(name, 1, 1) ELSE "_")
       \o Sanitize(SubSeq(name, 2, Len(name)))

\* `${timestamp}_${originalName}` under storage/sales
UploadName(t, originalname) == ToString(t) \o "_" \o Sanitize(originalname)

\* path.join(STORAGE_PATH, 'metadata', `${storeId}_${date}.json`)
MetadataPath(storeId, date) == storeId \o "_" \o date \o ".json"

\* path.join(STORAGE_PATH, 'audit-logs', `audit_${storeId}_${date}_${Date.now()}.json`)
AuditLogPath(storeId, date, t) ==
  "audit_" \o storeId \o "_" \o date \o "_" \o ToString(t) \o ".json"

\* path.join(STORAGE_PATH, 'admin-logs', `admin_${Date.now()}.json`)
AdminLogPath(t) == "admin_" \o ToString(t) \o ".json"

\* ---------------------------------------------------------- authMiddleware
\* A request arrives; authMiddleware runs up to its first await.
Receive(s, headers) ==
  /\ reqs[s].pc = "idle"
  /\ \E r \in Requests(headers) :
       IF ~WellFormed(r.addr)
       THEN Finish(s, r, 401, FALSE, "Invalid wallet address format")
       ELSE reqs' = [reqs EXCEPT ![s] =
                       [r EXCEPT !.pc = "mw_admin",
                                 !.chk = hasRole(r.addr, "admin").hasRole]]
  /\ UNCHANGED <<svcVars, fileVars, now, contractVars>>

\* faulty variant: the route does not validate the role
AddUserCall_anyRole(s, r0) ==
  \E userAddress \in BodyAddresses, role \in BodyRoles :
  LET r == [r0 EXCEPT !.userAddress = userAddress, !.role = role] IN
  IF r.userAddress = "" \/ r.role = ""
  THEN Finish(s, r, 400, FALSE, "User address and role are required")
       /\ UNCHANGED svcVars
  ELSE IF ~WellFormed(r.userAddress)
  THEN Finish(s, r, 400, FALSE, "Invalid Lisk address format")
       /\ UNCHANGED svcVars
  ELSE LET result == addUser(r.userAddress, r.role, r.addr) IN
       /\ mockUsers' = result.users
       /\ reqs' = [reqs EXCEPT ![s] = [r EXCEPT !.pc = "called", !.svc = result.res]]
       /\ UNCHANGED mockSalesRecords

\* POST /add-user from requireRole's next() up to the await of addUser
AddUserCall(s, r0) ==
  \E userAddress \in BodyAddresses, role \in BodyRoles :
  LET r == [r0 EXCEPT !.userAddress = userAddress, !.role = role] IN
  IF r.userAddress = "" \/ r.role = ""
  THEN Finish(s, r, 400, FALSE, "User address and role are required")
       /\ UNCHANGED svcVars
  ELSE IF r.role \notin {"admin", "auditor", "cashier"}
  THEN Finish(s, r, 400, FALSE, "Invalid role. Must be admin, auditor, or cashier")
       /\ UNCHANGED svcVars
  ELSE IF ~WellFormed(r.userAddress)
  THEN Finish(s, r, 400, FALSE, "Invalid Lisk address format")
       /\ UNCHANGED svcVars
  ELSE LET result == addUser(r.userAddress, r.role, r.addr) IN
       /\ mockUsers' = result.users
       /\ reqs' = [reqs EXCEPT ![s] = [r EXCEPT !.pc = "called", !.svc = result.res]]
       /\ UNCHANGED mockSalesRecords

\* DELETE /remove-user from requireRole's next() up to the await of removeUser
RemoveUserCall(s, r0) ==
  \E userAddress \in BodyAddresses :
  LET r == [r0 EXCEPT !.userAddress = userAddress] IN
  IF r.userAddress = ""
  THEN Finish(s, r, 400, FALSE, "User address is required")
       /\ UNCHANGED svcVars
  ELSE LET result == removeUser(r.userAddress, r.addr) IN
       /\ mockUsers' = result.users
       /\ reqs' = [reqs EXCEPT ![s] = [r EXCEPT !.pc = "called", !.svc = result.res]]
       /\ UNCHANGED mockSalesRecords

\* faulty variant: every identity that is not an auditor or a cashier is
\* counted as an admin, and so is every address ever seen
StatsCall_miscount(s, r) ==
  LET users == getAllUsers
      result == getAllSalesRecords(r.addr)
      list == IF result.success THEN result.data ELSE {} IN
  /\ reqs' = [reqs EXCEPT ![s] = [r EXCEPT !.pc = "called",
       !.payload = [total    |-> Cardinality(DOMAIN users),
                    admins   |-> Cardinality(Addresses),
                    auditors |-> Cardinality({a \in DOMAIN users : users[a] = "auditor"}),
                    cashiers |-> Cardinality({a \in DOMAIN users : users[a] = "cashier"}),
                    records  |-> list]]]
  /\ UNCHANGED svcVars

\* GET /stats from requireRole's next() up to the await of getAllSalesRecords
StatsCall(s, r) ==
  LET users == getAllUsers
      result == getAllSalesRecords(r.addr)
      list == IF result.success THEN result.data ELSE {} IN
  /\ reqs' = [reqs EXCEPT ![s] = [r EXCEPT !.pc = "called",
       !.payload = [total    |-> Cardinality(DOMAIN users),
                    admins   |-> Cardinality({a \in DOMAIN users : users[a] = "admin"}),
                    auditors |-> Cardinality({a \in DOMAIN users : users[a] = "auditor"}),
                    cashiers |-> Cardinality({a \in DOMAIN users : users[a] = "cashier"}),
                    records  |-> list]]]
  /\ UNCHANGED svcVars

\* authMiddleware found the role: next() runs requireRole(requiredRole) and,
\* when it passes, the route up to its first await.
Enter(s, role, kinds) ==
  \E kind \in kinds :
  LET r == [reqs[s] EXCEPT !.userRole = role, !.kind = kind] IN
  IF r.userRole # RequiredRole(r.kind)
  THEN /\ Finish(s, r, 403, FALSE, "Unauthorized: " \o RequiredRole(r.kind) \o " role required")
       /\ UNCHANGED svcVars
  ELSE CASE r.kind = "add-user"    -> AddUserCall(s, r)
         [] r.kind = "remove-user" -> RemoveUserCall(s, r)
         [] r.kind = "stats"       -> StatsCall(s, r)
         [] OTHER -> Goto(s, r, "upload") /\ UNCHANGED svcVars

\* after await hasRole(walletAddress, 'admin')
MwAdmin(s, kinds) ==
  /\ reqs[s].pc = "mw_admin"
  /\ IF reqs[s].chk
     THEN Enter(s, "admin", kinds)
     ELSE /\ reqs' = [reqs EXCEPT ![s].pc = "mw_auditor",
                                  ![s].chk = hasRole(reqs[s].addr, "auditor").hasRole]
          /\ UNCHANGED svcVars
  /\ UNCHANGED <<fileVars, now, contractVars>>

\* after await hasRole(walletAddress, 'auditor')
MwAuditor(s, kinds) ==
  /\ reqs[s].pc = "mw_auditor"
  /\ IF reqs[s].chk
     THEN Enter(s, "auditor", kinds)
     ELSE /\ reqs' = [reqs EXCEPT ![s].pc = "mw_cashier",
                                  ![s].chk = hasRole(reqs[s].addr, "cashier").hasRole]
          /\ UNCHANGED svcVars
  /\ UNCHANGED <<fileVars, now, contractVars>>

\* faulty variant: an address with no role is answered like one with the
\* wrong role
MwCashier_asForbidden(s, kinds) ==
  /\ reqs[s].pc = "mw_cashier"
  /\ IF reqs[s].chk
     THEN Enter(s, "cashier", kinds)
     ELSE Enter(s, Undefined, kinds)
  /\ UNCHANGED <<fileVars, now, contractVars>>

\* after await hasRole(walletAddress, 'cashier')
MwCashier(s, kinds) ==
  /\ reqs[s].pc = "mw_cashier"
  /\ IF reqs[s].chk
     THEN Enter(s, "cashier", kinds)
     ELSE /\ Finish(s, reqs[s], 403, FALSE, "Unauthorized: No valid role assigned")
          /\ UNCHANGED svcVars
  /\ UNCHANGED <<fileVars, now, contractVars>>

\* ------------------------------------------------------------ admin routes
\* POST /add-user and DELETE /remove-user after the await of the service call
AdminContinue(s) ==
  LET r == reqs[s] IN
  /\ r.pc = "called"
  /\ r.kind \in {"add-user", "remove-user"}
  /\ IF r.svc.success
     THEN reqs' = [reqs EXCEPT ![s] = [r EXCEPT !.pc = "write",
            !.payload = [action        |-> IF r.kind = "add-user" THEN "add_user" ELSE "remove_user",
                         adminAddress  |-> r.addr,
                         targetAddress |-> r.userAddress,
                         role          |-> IF r.kind = "add-user" THEN r.role ELSE Undefined,
                         timestamp     |-> now],
            !.logPath = AdminLogPath(now)]]
     ELSE Finish(s, r, 200, r.svc.success, r.svc.message)
  /\ UNCHANGED <<svcVars, fileVars, now, contractVars>>

\* recordDate.getMonth() === now.getMonth() && recordDate.getFullYear() === now.getFullYear()
TicksPerMonth == 1
MonthOf(t) == t \div TicksPerMonth

\* GET /stats after the await of getAllSalesRecords
StatsRespond(s) ==
  LET r == reqs[s] IN
  /\ r.pc = "called"
  /\ r.kind = "stats"
  /\ reqs' = [reqs EXCEPT ![s] = [r EXCEPT !.pc = "done",
       !.payload = [total      |-> r.payload.total,
                    admins     |-> r.payload.admins,
                    auditors   |-> r.payload.auditors,
                    cashiers   |-> r.payload.cashiers,
                    salesTotal |-> Cardinality(r.payload.records),
                    thisMonth  |-> Cardinality({x \in r.payload.records :
                                                  MonthOf(x.timestamp) = MonthOf(now)})],
       !.out = [status |-> 200, success |-> TRUE, message |-> ""]]]
  /\ UNCHANGED <<svcVars, fileVars, now, contractVars>>

\* ------------------------------------------------------ POST /submit-sales
\* upload.single('salesFile') stores the file, then the route runs up to
\* await fs.readFile
SubmitUpload(s) ==
  /\ reqs[s].pc = "upload"
  /\ reqs[s].kind = "submit-sales"
  /\ \E file \in BodyFiles, storeId \in BodyStoreIds, date \in Dates :
     LET r == [reqs[s] EXCEPT !.file = file, !.storeId = storeId, !.date = date]
         name == UploadName(now, OriginalName) IN
     IF r.file = NoFile
     THEN Finish(s, r, 400, FALSE, "No file uploaded") /\ UNCHANGED uploads
     ELSE /\ uploads' = MapSet(uploads, name, r.file)
          /\ IF r.storeId = "" \/ r.date = ""
             THEN Finish(s, [r EXCEPT !.path = name], 400, FALSE, "Store ID and date are required")
             ELSE Goto(s, [r EXCEPT !.path = name], "read")
  /\ UNCHANGED <<svcVars, metadata, auditLogs, adminLogs, now, contractVars>>

\* faulty variant: the digest is taken of the file name, not of its content
SubmitReadFile_hashName(s) ==
  LET r == reqs[s] IN
  /\ r.pc = "read"
  /\ IF ~MapHas(uploads, r.path)
     THEN Finish(s, r, 500, FALSE, "Failed to submit sales file")
          /\ UNCHANGED svcVars
     ELSE LET hash == sha256hex(r.path)
              result == submitSalesHash(r.storeId, r.date, hash, r.addr) IN
          /\ mockSalesRecords' = result.records
          /\ reqs' = [reqs EXCEPT ![s] = [r EXCEPT !.pc = "called", !.hash = hash,
                                                   !.svc = result.res]]
          /\ UNCHANGED mockUsers
  /\ UNCHANGED <<fileVars, now, contractVars>>

\* fs.readFile resolved (or rejected): hash, then submitSalesHash up to its await
SubmitReadFile(s) ==
  LET r == reqs[s] IN
  /\ r.pc = "read"
  /\ IF ~MapHas(uploads, r.path)
     THEN Finish(s, r, 500, FALSE, "Failed to submit sales file")
          /\ UNCHANGED svcVars
     ELSE LET hash == sha256hex(uploads[r.path])
              result == submitSalesHash(r.storeId, r.date, hash, r.addr) IN
          /\ mockSalesRecords' = result.records
          /\ reqs' = [reqs EXCEPT ![s] = [r EXCEPT !.pc = "called", !.hash = hash,
                                                   !.svc = result.res]]
          /\ UNCHANGED mockUsers
  /\ UNCHANGED <<fileVars, now, contractVars>>

\* after the await of submitSalesHash
SubmitContinue(s) ==
  LET r == reqs[s] IN
  /\ r.pc = "called"
  /\ r.kind = "submit-sales"
  /\ IF ~r.svc.success
     THEN Goto(s, r, "cleanup")
     ELSE reqs' = [reqs EXCEPT ![s] = [r EXCEPT !.pc = "write",
            !.payload = [storeId |-> r.storeId, date |-> r.date, hash |-> r.hash,
                         filename |-> r.path, submittedBy |-> r.addr,
                         timestamp |-> now],
            !.logPath = MetadataPath(r.storeId, r.date)]]
  /\ UNCHANGED <<svcVars, fileVars, now, contractVars>>

\* await fs.remove(req.file.path), then the 400 response
SubmitCleanup(s) ==
  LET r == reqs[s] IN
  /\ r.pc = "cleanup"
  /\ uploads' = MapDelete(uploads, r.path)
  /\ Finish(s, r, 400, r.svc.success, r.svc.message)
  /\ UNCHANGED <<svcVars, metadata, auditLogs, adminLogs, now, contractVars>>

\* ------------------------------------------------------------ POST /verify
\* faulty variant: only the first characters of the digests are compared
HashMatch_truncated(uploadedHash, storedHash) ==
  SubSeq(uploadedHash, 1, 8) = SubSeq(storedHash, 1, 8)

HashMatch_always(uploadedHash, storedHash) == TRUE

\* uploadedHash === storedRecord.hash
HashMatch(uploadedHash, storedHash) == uploadedHash = storedHash

\* upload.single('auditFile') keeps the file in memory, then the route runs
\* up to the await of getSalesHash
VerifyUpload(s) ==
  /\ reqs[s].pc = "upload"
  /\ reqs[s].kind = "verify"
  /\ \E file \in BodyFiles, storeId \in BodyStoreIds, date \in Dates :
     LET r == [reqs[s] EXCEPT !.file = file, !.storeId = storeId, !.date = date] IN
     IF r.file = NoFile
     THEN Finish(s, r, 400, FALSE, "No file uploaded for verification")
     ELSE IF r.storeId = "" \/ r.date = ""
     THEN Finish(s, r, 400, FALSE, "Store ID and date are required")
     ELSE reqs' = [reqs EXCEPT ![s] = [r EXCEPT !.pc = "called",
                     !.hash = sha256hex(r.file),
                     !.svc = getSalesHash(r.storeId, r.date)]]
  /\ UNCHANGED <<svcVars, fileVars, now, contractVars>>

\* faulty variant: a verification restamps the audited record
VerifyContinue_restamp(s) ==
  LET r == reqs[s]
      storedRecord == r.svc.data IN
  /\ r.pc = "called"
  /\ r.kind = "verify"
  /\ IF ~r.svc.success
     THEN /\ Finish(s, r, 404, FALSE, "No sales record found for the specified store and date")
          /\ UNCHANGED svcVars
     ELSE /\ reqs' = [reqs EXCEPT ![s] = [r EXCEPT !.pc = "write",
               !.payload = [auditedBy |-> r.addr, storeId |-> r.storeId, date |-> r.date,
                            uploadedHash |-> r.hash, storedHash |-> storedRecord.hash,
                            hashMatch |-> HashMatch(r.hash, storedRecord.hash),
                            timestamp |-> now, originalSubmission |-> storedRecord],
               !.logPath = AuditLogPath(r.storeId, r.date, now)]]
          /\ mockSalesRecords' = [k \in DOMAIN mockSalesRecords |->
                                    [mockSalesRecords[k] EXCEPT !.timestamp = now + 1]]
          /\ UNCHANGED mockUsers
  /\ UNCHANGED <<fileVars, now, contractVars>>

\* after the await of getSalesHash
VerifyContinue(s) ==
  LET r == reqs[s]
      storedRecord == r.svc.data IN
  /\ r.pc = "called"
  /\ r.kind = "verify"
  /\ IF ~r.svc.success
     THEN Finish(s, r, 404, FALSE, "No sales record found for the specified store and date")
     ELSE reqs' = [reqs EXCEPT ![s] = [r EXCEPT !.pc = "write",
            !.payload = [auditedBy |-> r.addr, storeId |-> r.storeId, date |-> r.date,
                         uploadedHash |-> r.hash, storedHash |-> storedRecord.hash,
                         hashMatch |-> HashMatch(r.hash, storedRecord.hash),
                         timestamp |-> now, originalSubmission |-> storedRecord],
            !.logPath = AuditLogPath(r.storeId, r.date, now)]]
  /\ UNCHANGED <<svcVars, fileVars, now, contractVars>>

\* ---------------------------------------------------- the JSON file writes
\* await fs.ensureDir; await fs.writeJson resolved; then the response
WriteFile(s) ==
  LET r == reqs[s] IN
  /\ r.pc = "write"
  /\ CASE r.kind = "submit-sales" ->
            /\ metadata' = MapSet(metadata, r.logPath, r.payload)
            /\ Finish(s, r, 200, TRUE, "Sales file submitted successfully")
            /\ UNCHANGED <<auditLogs, adminLogs>>
       [] r.kind = "verify" ->
            /\ auditLogs' = MapSet(auditLogs, r.logPath, r.payload)
            /\ Finish(s, r, 200, TRUE, IF r.payload.hashMatch
                                       THEN "File verification successful"
                                       ELSE "File verification failed")
            /\ UNCHANGED <<metadata, adminLogs>>
       [] OTHER ->
            /\ adminLogs' = MapSet(adminLogs, r.logPath, r.payload)
            /\ Finish(s, r, 200, r.svc.success, r.svc.message)
            /\ UNCHANGED <<metadata, auditLogs>>
  /\ UNCHANGED <<svcVars, uploads, now, contractVars>>

\* fs.ensureDir or fs.writeJson rejected: the catch block answers 500
WriteFail(s) ==
  LET r == reqs[s] IN
  /\ r.pc = "write"
  /\ Finish(s, r, 500, FALSE,
       CASE r.kind = "submit-sales" -> "Failed to submit sales file"
         [] r.kind = "verify"       -> "Failed to verify file"
         [] r.kind = "add-user"     -> "Failed to add user"
         [] OTHER                   -> "Failed to remove user")
  /\ UNCHANGED <<svcVars, fileVars, now, contractVars>>

\* Date.now() advances
Tick ==
  /\ now < MaxTime
  /\ now' = now + 1
  /\ UNCHANGED <<backendVars, contractVars>>

\* --------------------------------------------------------- SecurePOSModule
\* The endpoints of the contract module. A handler has no await inside, so an
\* endpoint call is one step.
NoRet == [op |-> "", success |-> FALSE, message |-> "", data |-> NoRecord,
          hasRole |-> FALSE, role |-> Undefined, list |-> {}]
Ret(op, ok, msg) == [NoRet EXCEPT !.op = op, !.success = ok, !.message = msg]

\* userRole?.role === role
hasRoleInternal(address, role) ==
  MapHas(userRoles, address) /\ userRoles[address].role = role

Hashes == {sha256hex(b) : b \in Contents} \cup {""}

Called(r) ==
  /\ calls < MaxCalls
  /\ calls' = calls + 1
  /\ ret' = r

SecurePOS_submitSalesHash ==
  \E storeId \in BodyStoreIds, date \in Dates, hash \in Hashes, senderAddress \in Addresses :
    LET key == RecordKey(storeId, date) IN
    /\ IF ~hasRoleInternal(senderAddress, "cashier")
       THEN Called(Ret("submitSalesHash", FALSE, "Unauthorized: Cashier role required"))
            /\ UNCHANGED salesRecords
       ELSE IF storeId = "" \/ date = "" \/ hash = ""
       THEN Called(Ret("submitSalesHash", FALSE, "Missing required parameters"))
            /\ UNCHANGED salesRecords
       ELSE IF MapHas(salesRecords, key)
       THEN Called(Ret("submitSalesHash", FALSE,
                       "Sales record for this store and date already exists"))
            /\ UNCHANGED salesRecords
       ELSE /\ salesRecords' = MapSet(salesRecords, key,
                 [storeId |-> storeId, date |-> date, hash |-> hash,
                  timestamp |-> now, submittedBy |-> senderAddress])
            /\ Called(Ret("submitSalesHash", TRUE, "Sales hash submitted successfully"))
    /\ UNCHANGED <<userRoles, adminAddresses, now, backendVars>>

SecurePOS_getSalesHash ==
  \E storeId \in BodyStoreIds, date \in Dates :
    LET key == RecordKey(storeId, date) IN
    /\ IF storeId = "" \/ date = ""
       THEN Called(Ret("getSalesHash", FALSE, "Missing required parameters"))
       ELSE IF ~MapHas(salesRecords, key)
       THEN Called(Ret("getSalesHash", FALSE,
                       "No sales record found for the specified store and date"))
       ELSE Called([Ret("getSalesHash", TRUE, "Sales record retrieved successfully")
                      EXCEPT !.data = salesRecords[key]])
    /\ UNCHANGED <<userRoles, adminAddresses, salesRecords, now, backendVars>>

SecurePOS_addUser ==
  \E userAddress \in Addresses, role \in BodyRoles, senderAddress \in Addresses :
    /\ IF ~hasRoleInternal(senderAddress, "admin")
       THEN Called(Ret("addUser", FALSE, "Unauthorized: Admin role required"))
            /\ UNCHANGED <<userRoles, adminAddresses>>
       ELSE IF role \notin {"admin", "auditor", "cashier"}
       THEN Called(Ret("addUser", FALSE, "Invalid role specified"))
            /\ UNCHANGED <<userRoles, adminAddresses>>
       ELSE /\ userRoles' = MapSet(userRoles, userAddress,
                 [address |-> userAddress, role |-> role,
                  addedBy |-> senderAddress, timestamp |-> now])
            /\ adminAddresses' = IF role = "admin"
                                 THEN adminAddresses \cup {userAddress}
                                 ELSE adminAddresses
            /\ Called(Ret("addUser", TRUE, "User added to " \o role \o " role successfully"))
    /\ UNCHANGED <<salesRecords, now, backendVars>>

SecurePOS_removeUser ==
  \E userAddress \in Addresses, senderAddress \in Addresses :
    /\ IF ~hasRoleInternal(senderAddress, "admin")
       THEN Called(Ret("removeUser", FALSE, "Unauthorized: Admin role required"))
            /\ UNCHANGED <<userRoles, adminAddresses>>
       ELSE IF userAddress = senderAddress /\ Cardinality(adminAddresses) = 1
       THEN Called(Ret("removeUser", FALSE, "Cannot remove the last admin"))
            /\ UNCHANGED <<userRoles, adminAddresses>>
       ELSE IF MapHas(userRoles, userAddress)
       THEN /\ userRoles' = MapDelete(userRoles, userAddress)
            /\ adminAddresses' = IF userRoles[userAddress].role = "admin"
                                 THEN adminAddresses \ {userAddress}
                                 ELSE adminAddresses
            /\ Called(Ret("removeUser", TRUE, "User removed successfully"))
       ELSE Called(Ret("removeUser", FALSE, "User not found"))
            /\ UNCHANGED <<userRoles, adminAddresses>>
    /\ UNCHANGED <<salesRecords, now, backendVars>>

SecurePOS_hasRole ==
  \E userAddress \in Addresses, role \in BodyRoles :
    /\ Called([Ret("hasRole", TRUE, "") EXCEPT
                 !.hasRole = hasRoleInternal(userAddress, role),
                 !.role = IF MapHas(userRoles, userAddress)
                          THEN userRoles[userAddress].role ELSE Undefined])
    /\ UNCHANGED <<userRoles, adminAddresses, salesRecords, now, backendVars>>

SecurePOS_getAllSalesRecords ==
  \E senderAddress \in Addresses :
    /\ IF ~hasRoleInternal(senderAddress, "admin")
       THEN Called(Ret("getAllSalesRecords", FALSE, "Unauthorized: Admin role required"))
       ELSE Called([Ret("getAllSalesRecords", TRUE, "Sales records retrieved successfully")
                      EXCEPT !.list = {salesRecords[k] : k \in DOMAIN salesRecords}])
    /\ UNCHANGED <<userRoles, adminAddresses, salesRecords, now, backendVars>>

\* ---------------------------------------------------------- specification
InitBackend ==
  /\ mockUsers = [a \in Addresses |->
                    CASE a = ADMIN -> "admin" [] a = AUDITOR -> "auditor" [] OTHER -> "cashier"]
  /\ mockSalesRecords = EmptyMap
  /\ now = 0
  /\ reqs = [s \in Slots |-> Idle]
  /\ uploads = EmptyMap
  /\ metadata = EmptyMap
  /\ auditLogs = EmptyMap
  /\ adminLogs = EmptyMap

\* SecurePOSModule after construction and init(args), the deployer being
\* args.genesisConfig.accounts[0].address
InitContract ==
  /\ userRoles = MapSet(EmptyMap, ADMIN,
                    [address |-> ADMIN, role |-> "admin", addedBy |-> ADMIN, timestamp |-> 0])
  /\ adminAddresses = {ADMIN}
  /\ salesRecords = EmptyMap
  /\ ret = NoRet
  /\ calls = 0

Init == InitBackend /\ InitContract

Next ==
  \/ \E s \in Slots : Receive(s, HeaderAddresses)
  \/ \E s \in Slots : MwAdmin(s, Kinds)
  \/ \E s \in Slots : MwAuditor(s, Kinds)
  \/ \E s \in Slots : MwCashier(s, Kinds)
  \/ \E s \in Slots : AdminContinue(s)
  \/ \E s \in Slots : StatsRespond(s)
  \/ \E s \in Slots : SubmitUpload(s)
  \/ \E s \in Slots : SubmitReadFile(s)
  \/ \E s \in Slots : SubmitContinue(s)
  \/ \E s \in Slots : SubmitCleanup(s)
  \/ \E s \in Slots : VerifyUpload(s)
  \/ \E s \in Slots : VerifyContinue(s)
  \/ \E s \in Slots : WriteFile(s)
  \/ Tick

Spec == Init /\ [][Next]_vars

\* the backend when the storage may reject a JSON write
NextFaults == Next \/ \E s \in Slots : WriteFail(s)

SpecFaults == Init /\ [][NextFaults]_vars

\* the contract module on its own
NextContract ==
  \/ SecurePOS_submitSalesHash
  \/ SecurePOS_getSalesHash
  \/ SecurePOS_addUser
  \/ SecurePOS_removeUser
  \/ SecurePOS_hasRole
  \/ SecurePOS_getAllSalesRecords
  \/ Tick

SpecContract == Init /\ [][NextContract]_vars

\* N concurrent POST /submit-sales requests of the seeded cashier, the storage
\* working (no write is rejected)
NextSubmit ==
  \/ \E s \in Slots : Receive(s, {CASHIER})
  \/ \E s \in Slots : MwAdmin(s, {"submit-sales"})
  \/ \E s \in Slots : MwAuditor(s, {"submit-sales"})
  \/ \E s \in Slots : MwCashier(s, {"submit-sales"})
  \/ \E s \in Slots : SubmitUpload(s)
  \/ \E s \in Slots : SubmitReadFile(s)
  \/ \E s \in Slots : SubmitContinue(s)
  \/ \E s \in Slots : SubmitCleanup(s)
  \/ \E s \in Slots : WriteFile(s)
  \/ Tick

SpecSubmit == Init /\ [][NextSubmit]_vars

\* ------------------------------------------------------------------ claims
Admins == {a \in DOMAIN mockUsers : mockUsers[a] = "admin"}

\* slot s takes a step
Steps(s) == reqs'[s] # reqs[s]

\* slot s makes its service call in this step
Calls(s, kind) ==
  /\ reqs[s].pc # "called"
  /\ reqs'[s].pc = "called"
  /\ reqs'[s].kind = kind

\* the ledger has a record of this storeId and date
HasRecord(records, storeId, date) ==
  \E k \in DOMAIN records : records[k].storeId = storeId /\ records[k].date = date

DuplicateMessage == "Sales record already exists for this date"
LastAdminMessage == "Cannot remove the last admin"

\* C1: in every reachable state at least one address holds the role admin in
\* the identity store.
C1_AdminExists == Admins # {}

\* C2: when exactly one address a holds admin, removeUser(a, a) fails with the
\* last-admin error and leaves the identity store unchanged.
C2_LastAdminRefused ==
  [][\A s \in Slots :
       (Calls(s, "remove-user") /\ reqs'[s].userAddress = reqs[s].addr
          /\ Admins = {reqs[s].addr})
       => (/\ ~reqs'[s].svc.success
           /\ reqs'[s].svc.message = LastAdminMessage
           /\ mockUsers' = mockUsers)]_vars

\* C3: the sales ledger changes only in a step of a submit-sales request whose
\* caller holds exactly cashier in the identity store at that step, and the
\* identity store changes only in a step of an add-user or remove-user request
\* whose caller holds exactly admin at that step, whatever was interleaved
\* since the middleware checked the caller.
C3_RoleGated ==
  [][/\ mockSalesRecords' # mockSalesRecords
          => \E s \in Slots : /\ Steps(s)
                              /\ reqs'[s].kind = "submit-sales"
                              /\ UsersGet(mockUsers, reqs[s].addr) = "cashier"
     /\ mockUsers' # mockUsers
          => \E s \in Slots : /\ Steps(s)
                              /\ reqs'[s].kind \in {"add-user", "remove-user"}
                              /\ UsersGet(mockUsers, reqs[s].addr) = "admin"]_vars

\* C3 witness: a submit-sales request passed requireRole('cashier'), its caller
\* lost the role before the service call, and the service refused the call.
C3_Witness ==
  \E s \in Slots : /\ reqs[s].kind = "submit-sales"
                   /\ reqs[s].userRole = "cashier"
                   /\ reqs[s].pc = "called"
                   /\ reqs[s].svc.message = "Unauthorized: Cashier role required"
                   /\ mockSalesRecords = EmptyMap

\* C4: a submitSalesHash by a cashier for a (storeId, date) that already has a
\* record fails with the duplicate-record error, whatever the digest, and
\* leaves the ledger as it was; the route answers 400 with that error.
C4_SecondSubmitFails ==
  [][\A s \in Slots :
       /\ (Calls(s, "submit-sales")
             /\ UsersGet(mockUsers, reqs[s].addr) = "cashier"
             /\ HasRecord(mockSalesRecords, reqs[s].storeId, reqs[s].date))
          => (/\ ~reqs'[s].svc.success
              /\ reqs'[s].svc.message = DuplicateMessage
              /\ mockSalesRecords' = mockSalesRecords)
       /\ (reqs[s].pc = "cleanup" /\ Steps(s))
          => (/\ reqs'[s].out = [status |-> 400, success |-> FALSE,
                                 message |-> reqs[s].svc.message]
              /\ mockSalesRecords' = mockSalesRecords)]_vars

\* C4 witness: a second submission for a key that has a record, with another
\* digest than the stored one, was refused as a duplicate.
C4_Witness ==
  \E s \in Slots :
    /\ reqs[s].kind = "submit-sales"
    /\ reqs[s].pc = "done"
    /\ reqs[s].out.message = DuplicateMessage
    /\ \E k \in DOMAIN mockSalesRecords :
         /\ mockSalesRecords[k].storeId = reqs[s].storeId
         /\ mockSalesRecords[k].date = reqs[s].date
         /\ mockSalesRecords[k].hash # sha256hex(reqs[s].file)

\* C5: when every slot has finished a submit-sales request for the same
\* (storeId, date), with pairwise different file contents, exactly one got the
\* success response, the others the duplicate-record failure, and the ledger
\* holds exactly one record for the key, with the digest of the file of the
\* request that succeeded.
C5_ExactlyOneWins ==
  LET winners == {s \in Slots : reqs[s].out.success} IN
  (/\ \A s \in Slots : /\ reqs[s].pc = "done"
                       /\ reqs[s].kind = "submit-sales"
                       /\ reqs[s].file # NoFile
                       /\ reqs[s].storeId # ""
   /\ \A s, t \in Slots : /\ reqs[s].storeId = reqs[t].storeId
                          /\ reqs[s].date = reqs[t].date
                          /\ (s # t => reqs[s].file # reqs[t].file))
  => /\ Cardinality(winners) = 1
     /\ \A s \in Slots \ winners :
          reqs[s].out = [status |-> 400, success |-> FALSE, message |-> DuplicateMessage]
     /\ \A s \in winners :
          /\ Cardinality({k \in DOMAIN mockSalesRecords :
                            /\ mockSalesRecords[k].storeId = reqs[s].storeId
                            /\ mockSalesRecords[k].date = reqs[s].date}) = 1
          /\ \A k \in DOMAIN mockSalesRecords :
               (/\ mockSalesRecords[k].storeId = reqs[s].storeId
                /\ mockSalesRecords[k].date = reqs[s].date)
               => mockSalesRecords[k].hash = sha256hex(reqs[s].file)

\* C6: a sales record, once in the ledger, keeps its hash, submittedBy and
\* timestamp and is never removed, in every step of every request.
C6_RecordsImmutable ==
  [][\A k \in DOMAIN mockSalesRecords :
       /\ k \in DOMAIN mockSalesRecords'
       /\ mockSalesRecords'[k] = mockSalesRecords[k]]_vars

\* C6 witness: a record is in the ledger and the cashier who submitted it has
\* been revoked.
C6_Witness ==
  \E k \in DOMAIN mockSalesRecords :
    /\ ~MapHas(mockUsers, mockSalesRecords[k].submittedBy)
    /\ \E s \in Slots : reqs[s].kind = "remove-user" /\ reqs[s].pc = "done"

\* C7: a submitSalesHash by a cashier is refused as a duplicate only if a
\* record with the same storeId and the same date exists, and a lookup returns
\* only a record whose storeId and date are the arguments.
C7_KeyedByPair ==
  [][\A s \in Slots :
       /\ (Calls(s, "submit-sales") /\ reqs'[s].svc.message = DuplicateMessage)
          => HasRecord(mockSalesRecords, reqs'[s].storeId, reqs'[s].date)
       /\ (Calls(s, "verify") /\ reqs'[s].svc.success)
          => (/\ reqs'[s].svc.data.storeId = reqs'[s].storeId
              /\ reqs'[s].svc.data.date = reqs'[s].date)]_vars

\* C8: right after addUser(a, r, admin) succeeds, hasRole(a, r) is true and
\* hasRole(a, r2) is false for every other role r2; right after
\* removeUser(a, admin) succeeds, a has no role and hasRole(a, r) is false for
\* every role r.
C8_GrantRevoke ==
  [][\A s \in Slots : \A a \in BodyAddresses : \A r \in Roles :
       /\ (Calls(s, "add-user") /\ reqs'[s].svc.success
             /\ reqs'[s].userAddress = a /\ reqs'[s].role = r)
          => (/\ (hasRole(a, r).hasRole)'
              /\ (hasRole(a, r).role)' = r
              /\ \A r2 \in Roles \ {r} : ~(hasRole(a, r2).hasRole)')
       /\ (Calls(s, "remove-user") /\ reqs'[s].svc.success
             /\ reqs'[s].userAddress = a)
          => (/\ ~(hasRole(a, r).hasRole)'
              /\ (hasRole(a, r).role)' = Undefined)]_vars

\* C8 witness: addUser replaced the role of an address that had one, and a
\* removeUser succeeded.
C8_Witness ==
  /\ \E s \in Slots : /\ reqs[s].kind = "add-user"
                      /\ reqs[s].pc = "called"
                      /\ reqs[s].svc.success
                      /\ reqs[s].userAddress = AUDITOR
                      /\ reqs[s].role = "cashier"
                      /\ UsersGet(mockUsers, AUDITOR) = "cashier"
  /\ \E s \in Slots : /\ reqs[s].kind = "remove-user"
                      /\ reqs[s].svc.success
                      /\ reqs[s].userAddress = CASHIER
                      /\ ~MapHas(mockUsers, CASHIER)

\* C9: a verification for a (storeId, date) that has no sales record fails
\* with the record-not-found outcome, creates no sales record and appends no
\* audit event.
C9_NoRecordNotFound ==
  [][\A s \in Slots :
       /\ (Calls(s, "verify")
             /\ ~HasRecord(mockSalesRecords, reqs'[s].storeId, reqs'[s].date))
          => ~reqs'[s].svc.success
       /\ (reqs[s].kind = "verify" /\ reqs[s].pc = "called" /\ ~reqs[s].svc.success
             /\ Steps(s))
          => (/\ reqs'[s].pc = "done"
              /\ reqs'[s].out.status = 404
              /\ ~reqs'[s].out.success
              /\ mockSalesRecords' = mockSalesRecords
              /\ auditLogs' = auditLogs)]_vars

\* C10: a verification against an existing sales record is answered with
\* success and writes one audit event, whether the digests match or not; the
\* event's hashMatch is true exactly when the digest of the uploaded file is
\* the stored digest, and the event holds the uploaded digest, the stored
\* digest, the stored record with its submitter and timestamp, and the
\* auditor's address.
C10_VerifyRecorded ==
  [][\A s \in Slots :
       /\ (Calls(s, "verify")
             /\ HasRecord(mockSalesRecords, reqs'[s].storeId, reqs'[s].date))
          => (/\ reqs'[s].svc.success
              /\ reqs'[s].svc.data \in
                   {mockSalesRecords[k] : k \in DOMAIN mockSalesRecords}
              /\ reqs'[s].svc.data.storeId = reqs'[s].storeId
              /\ reqs'[s].svc.data.date = reqs'[s].date)
       /\ (reqs[s].kind = "verify" /\ reqs[s].pc = "called" /\ reqs[s].svc.success
             /\ Steps(s))
          => reqs'[s].pc = "write"
       /\ (reqs[s].kind = "verify" /\ reqs[s].pc = "write" /\ Steps(s))
          => LET event == auditLogs'[reqs[s].logPath] IN
             /\ reqs'[s].pc = "done"
             /\ reqs'[s].out.status = 200
             /\ reqs'[s].out.success
             /\ DOMAIN auditLogs' = DOMAIN auditLogs \cup {reqs[s].logPath}
             /\ event.hashMatch = (sha256hex(reqs[s].file) = reqs[s].svc.data.hash)
             /\ event.uploadedHash = sha256hex(reqs[s].file)
             /\ event.storedHash = reqs[s].svc.data.hash
             /\ event.originalSubmission = reqs[s].svc.data
             /\ event.auditedBy = reqs[s].addr
             /\ event.storeId = reqs[s].storeId
             /\ event.date = reqs[s].date]_vars

\* C10 witness: a verification whose digest differs from the stored one got
\* the success response and its event is in the audit log.
C10_Witness ==
  \E s \in Slots :
    /\ reqs[s].kind = "verify"
    /\ reqs[s].pc = "done"
    /\ reqs[s].out.success
    /\ MapHas(auditLogs, reqs[s].logPath)
    /\ ~auditLogs[reqs[s].logPath].hashMatch
    /\ auditLogs[reqs[s].logPath].uploadedHash # auditLogs[reqs[s].logPath].storedHash

\* ------------------------------------------------ concurrent verifications
\* The backend after one POST /submit-sales of the seeded cashier has been
\* served at time 0: its record, its uploaded file and its metadata file.
InitVerify ==
  LET hash == sha256hex("B1")
      name == UploadName(0, OriginalName) IN
  /\ InitContract
  /\ mockUsers = [a \in Addresses |->
                    CASE a = ADMIN -> "admin" [] a = AUDITOR -> "auditor" [] OTHER -> "cashier"]
  /\ mockSalesRecords = MapSet(EmptyMap, RecordKey("S1", "D1"),
                          [storeId |-> "S1", date |-> "D1", hash |-> hash,
                           timestamp |-> 0, submittedBy |-> CASHIER])
  /\ now = 0
  /\ reqs = [s \in Slots |-> Idle]
  /\ uploads = MapSet(EmptyMap, name, "B1")
  /\ metadata = MapSet(EmptyMap, MetadataPath("S1", "D1"),
                  [storeId |-> "S1", date |-> "D1", hash |-> hash, filename |-> name,
                   submittedBy |-> CASHIER, timestamp |-> 0])
  /\ auditLogs = EmptyMap
  /\ adminLogs = EmptyMap

\* N concurrent POST /verify requests of the seeded auditor
NextVerify ==
  \/ \E s \in Slots : Receive(s, {AUDITOR})
  \/ \E s \in Slots : MwAdmin(s, {"verify"})
  \/ \E s \in Slots : MwAuditor(s, {"verify"})
  \/ \E s \in Slots : VerifyUpload(s)
  \/ \E s \in Slots : VerifyContinue(s)
  \/ \E s \in Slots : WriteFile(s)
  \/ Tick

SpecVerify == InitVerify /\ [][NextVerify]_vars

\* the verification requests that got the success response
Verified == {s \in Slots : /\ reqs[s].kind = "verify"
                           /\ reqs[s].pc = "done"
                           /\ reqs[s].out.status = 200
                           /\ reqs[s].out.success}

\* C11: the audit log holds exactly one event per verification request that
\* got the success response, also for verifications of the same key served
\* concurrently in the same millisecond.
C11_OneEventPerVerification ==
  Cardinality(DOMAIN auditLogs) = Cardinality(Verified)

\* C12: no step of a verification request, whether the digests match, differ
\* or the record is missing, changes the sales ledger or the identity store.
C12_VerifyFrame ==
  [][\A s \in Slots :
       (Steps(s) /\ reqs'[s].kind = "verify")
       => (/\ mockSalesRecords' = mockSalesRecords
           /\ mockUsers' = mockUsers)]_vars

\* C12 witness: a verification that found a mismatch has been answered and
\* the audited record is in the ledger as the event recorded it.
C12_Witness ==
  \E s \in Slots :
    /\ reqs[s].kind = "verify"
    /\ reqs[s].pc = "done"
    /\ reqs[s].out.status = 200
    /\ ~reqs[s].payload.hashMatch
    /\ RecordsGet(mockSalesRecords, RecordKey(reqs[s].storeId, reqs[s].date))
         = reqs[s].payload.originalSubmission

\* the add-user and remove-user requests that were applied and answered
AppliedAdminCalls == {s \in Slots : /\ reqs[s].kind \in {"add-user", "remove-user"}
                                    /\ reqs[s].pc = "done"
                                    /\ reqs[s].svc.success}

\* C13: the admin action log holds exactly one event per answered add-user or
\* remove-user request whose identity-store change was applied, also for two
\* such requests served in the same millisecond.
C13_OneEventPerAdminCall ==
  Cardinality(DOMAIN adminLogs) = Cardinality(AppliedAdminCalls)

\* ------------------------------------------------ requests one at a time
\* no other request is in flight while slot s is served
Alone(s) == \A t \in Slots \ {s} : reqs[t].pc \in {"idle", "done"}

\* the backend serving each request to its response before the next arrives
NextSeq ==
  \/ \E s \in Slots : Alone(s) /\ Receive(s, HeaderAddresses)
  \/ \E s \in Slots : Alone(s) /\ MwAdmin(s, Kinds)
  \/ \E s \in Slots : Alone(s) /\ MwAuditor(s, Kinds)
  \/ \E s \in Slots : Alone(s) /\ MwCashier(s, Kinds)
  \/ \E s \in Slots : Alone(s) /\ AdminContinue(s)
  \/ \E s \in Slots : Alone(s) /\ StatsRespond(s)
  \/ \E s \in Slots : Alone(s) /\ SubmitUpload(s)
  \/ \E s \in Slots : Alone(s) /\ SubmitReadFile(s)
  \/ \E s \in Slots : Alone(s) /\ SubmitContinue(s)
  \/ \E s \in Slots : Alone(s) /\ SubmitCleanup(s)
  \/ \E s \in Slots : Alone(s) /\ VerifyUpload(s)
  \/ \E s \in Slots : Alone(s) /\ VerifyContinue(s)
  \/ \E s \in Slots : Alone(s) /\ WriteFile(s)
  \/ Tick

SpecSeq == Init /\ [][NextSeq]_vars

InMiddleware(r) == r.pc \in {"mw_admin", "mw_auditor", "mw_cashier"}

NoRoleMessage == "Unauthorized: No valid role assigned"
WrongRoleMessage(kind) == "Unauthorized: " \o RequiredRole(kind) \o " role required"

\* C14: when a request leaves the middleware, a caller with no role is
\* answered 403 with the no-valid-role message and a caller whose role is not
\* the one the route requires is answered 403 with the role-required message;
\* the two answers differ, and neither changes the identity store, the ledger
\* or any file.
C14_NoRoleVsWrongRole ==
  [][\A s \in Slots :
       (InMiddleware(reqs[s]) /\ ~InMiddleware(reqs'[s]))
       => LET role == UsersGet(mockUsers, reqs[s].addr)
              kind == reqs'[s].kind IN
          /\ role = Undefined
             => (/\ reqs'[s].pc = "done"
                 /\ reqs'[s].out = [status |-> 403, success |-> FALSE,
                                    message |-> NoRoleMessage]
                 /\ \A k \in Kinds : NoRoleMessage # WrongRoleMessage(k)
                 /\ UNCHANGED <<svcVars, fileVars>>)
          /\ (role \in Roles /\ role # RequiredRole(kind))
             => (/\ reqs'[s].pc = "done"
                 /\ reqs'[s].out = [status |-> 403, success |-> FALSE,
                                    message |-> WrongRoleMessage(kind)]
                 /\ UNCHANGED <<svcVars, fileVars>>)]_vars

\* C14 witness: an address with no role and a cashier asking for an admin
\* route have both been refused.
C14_Witness ==
  \E s, t \in Slots :
    /\ reqs[s].pc = "done"
    /\ reqs[s].addr = STRANGER
    /\ reqs[s].out.message = NoRoleMessage
    /\ reqs[t].pc = "done"
    /\ reqs[t].addr = CASHIER
    /\ reqs[t].userRole = "cashier"
    /\ reqs[t].kind = "add-user"
    /\ reqs[t].out.status = 403

NotFoundMessage == "User not found"

\* C15: a removeUser call by an admin for an address that has no identity
\* fails with the user-not-found message and leaves the identity store
\* unchanged; the route answers with success false and that message, and no
\* step of the request writes an admin log event.
C15_RemoveAbsentFails ==
  [][\A s \in Slots :
       /\ (Calls(s, "remove-user")
             /\ UsersGet(mockUsers, reqs[s].addr) = "admin"
             /\ ~MapHas(mockUsers, reqs'[s].userAddress))
          => (/\ ~reqs'[s].svc.success
              /\ reqs'[s].svc.message = NotFoundMessage
              /\ mockUsers' = mockUsers)
       /\ (Steps(s) /\ reqs'[s].kind = "remove-user"
             /\ reqs'[s].svc.message = NotFoundMessage)
          => adminLogs' = adminLogs
       /\ (Steps(s) /\ reqs[s].kind = "remove-user" /\ reqs[s].pc = "called"
             /\ reqs[s].svc.message = NotFoundMessage)
          => (/\ reqs'[s].pc = "done"
              /\ ~reqs'[s].out.success
              /\ reqs'[s].out.message = NotFoundMessage)]_vars

\* C15 witness: a remove-user request for an address with no identity has
\* been answered with the not-found failure and the admin log is empty.
C15_Witness ==
  \E s \in Slots :
    /\ reqs[s].kind = "remove-user"
    /\ reqs[s].pc = "done"
    /\ reqs[s].userAddress = STRANGER
    /\ ~reqs[s].out.success
    /\ reqs[s].out.message = NotFoundMessage
    /\ adminLogs = EmptyMap
    /\ DOMAIN mockUsers = Addresses

InvalidRoleMessage == "Invalid role. Must be admin, auditor, or cashier"

\* C16: after every step each identity in the identity store has a role among
\* admin, auditor and cashier; an add-user request of an admin whose role is
\* not one of the three is answered 400 (as an invalid role when address and
\* role are both given) and leaves the identity store unchanged.
C16_RolesClosed ==
  [][/\ \A a \in DOMAIN mockUsers' : mockUsers'[a] \in Roles
     /\ \A s \in Slots :
          (/\ Steps(s)
           /\ reqs[s].kind = ""
           /\ reqs'[s].kind = "add-user"
           /\ reqs'[s].userRole = "admin"
           /\ reqs'[s].role \notin Roles)
          => (/\ reqs'[s].pc = "done"
              /\ reqs'[s].out.status = 400
              /\ ~reqs'[s].out.success
              /\ mockUsers' = mockUsers
              /\ (reqs'[s].role # "" /\ reqs'[s].userAddress # "")
                 => reqs'[s].out.message = InvalidRoleMessage)]_vars

\* C16 witness: an admin's add-user request with the role manager has been
\* refused as an invalid role.
C16_Witness ==
  \E s \in Slots :
    /\ reqs[s].kind = "add-user"
    /\ reqs[s].pc = "done"
    /\ reqs[s].role = "manager"
    /\ reqs[s].userAddress = STRANGER
    /\ reqs[s].out.message = InvalidRoleMessage
    /\ ~MapHas(mockUsers, STRANGER)

\* the submit-sales requests whose record the service has stored
Submitted == {t \in Slots : /\ reqs[t].kind = "submit-sales"
                            /\ reqs[t].pc \in {"called", "write", "done"}
                            /\ reqs[t].svc.success}

\* C17: getAllSalesRecords succeeds exactly for a sender that holds admin at
\* the call; it then returns every record of the ledger, among them the
\* record of every submission that succeeded, whoever submitted it; for any
\* other sender it fails and returns no record. The statistics route gets
\* that answer.
C17_ListAllForAdmin ==
  [][/\ \A a \in HeaderAddresses :
          LET res == getAllSalesRecords(a) IN
          IF UsersGet(mockUsers, a) = "admin"
          THEN /\ res.success
               /\ res.data = {mockSalesRecords[k] : k \in DOMAIN mockSalesRecords}
               /\ \A t \in Submitted :
                    \E rec \in res.data : /\ rec.storeId = reqs[t].storeId
                                          /\ rec.date = reqs[t].date
                                          /\ rec.hash = reqs[t].hash
                                          /\ rec.submittedBy = reqs[t].addr
          ELSE ~res.success /\ res.data = {}
     /\ \A s \in Slots :
          Calls(s, "stats")
          => reqs'[s].payload.records = getAllSalesRecords(reqs[s].addr).data]_vars

\* C17 witness: the statistics request of the admin counted a record that the
\* cashier submitted.
C17_Witness ==
  \E s \in Slots :
    /\ reqs[s].kind = "stats"
    /\ reqs[s].pc = "done"
    /\ reqs[s].addr = ADMIN
    /\ reqs[s].out.status = 200
    /\ reqs[s].payload.salesTotal = 1
    /\ \E k \in DOMAIN mockSalesRecords : mockSalesRecords[k].submittedBy = CASHIER

\* the role the middleware asks hasRole about before it reaches this point
AskedRole(pc) ==
  CASE pc = "mw_admin"   -> "admin"
    [] pc = "mw_auditor" -> "auditor"
    [] OTHER             -> "cashier"

\* C18: hasRole(address, role) answers by the identity store alone and
\* getSalesHash(storeId, date) by the ledger alone, for every caller, also one
\* with no identity; the steps that make these calls change neither the
\* identity store, nor the ledger, nor any file.
C18_PublicReads ==
  [][/\ \A a \in HeaderAddresses, r \in Roles :
          /\ hasRole(a, r).success
          /\ hasRole(a, r).hasRole = (MapHas(mockUsers, a) /\ mockUsers[a] = r)
          /\ hasRole(a, r).role = UsersGet(mockUsers, a)
     /\ \A s \in Slots :
          /\ (Steps(s) /\ InMiddleware(reqs'[s]))
             => (/\ reqs'[s].chk = (MapHas(mockUsers, reqs'[s].addr)
                                     /\ mockUsers[reqs'[s].addr] = AskedRole(reqs'[s].pc))
                 /\ UNCHANGED <<svcVars, fileVars>>)
          /\ Calls(s, "verify")
             => LET key == RecordKey(reqs'[s].storeId, reqs'[s].date) IN
                /\ reqs'[s].svc.success = MapHas(mockSalesRecords, key)
                /\ reqs'[s].svc.success => reqs'[s].svc.data = mockSalesRecords[key]
                /\ UNCHANGED <<svcVars, fileVars>>]_vars

\* C18 witness: hasRole has answered for a caller that has no identity, and
\* getSalesHash has answered a lookup.
C18_Witness ==
  \E s, t \in Slots :
    /\ reqs[s].addr = STRANGER
    /\ reqs[s].pc = "mw_cashier"
    /\ ~reqs[s].chk
    /\ ~MapHas(mockUsers, STRANGER)
    /\ reqs[t].kind = "verify"
    /\ reqs[t].pc = "called"

\* C19: with the requests served one after another, for every submission the
\* service accepted (among them one by an address that had no role until an
\* admin granted it cashier), getSalesHash for its storeId and date succeeds
\* and returns a record with the digest of the submitted file, the submitter's
\* address, and that storeId and date.
C19_SubmitThenLookup ==
  \A t \in Submitted :
    LET res == getSalesHash(reqs[t].storeId, reqs[t].date) IN
    /\ res.success
    /\ res.data.hash = sha256hex(reqs[t].file)
    /\ res.data.submittedBy = reqs[t].addr
    /\ res.data.storeId = reqs[t].storeId
    /\ res.data.date = reqs[t].date

\* C19 witness: the admin granted cashier to an address that had no role, and
\* that address has submitted a file that is now in the ledger.
C19_Witness ==
  \E s, t \in Slots :
    /\ reqs[s].kind = "add-user"
    /\ reqs[s].pc = "done"
    /\ reqs[s].svc.success
    /\ reqs[s].userAddress = STRANGER
    /\ reqs[s].role = "cashier"
    /\ t \in Submitted
    /\ reqs[t].pc = "done"
    /\ reqs[t].addr = STRANGER
    /\ reqs[t].file = "B1"
    /\ getSalesHash(reqs[t].storeId, reqs[t].date).data.submittedBy = STRANGER

\* C20: with the requests served one after another, a verification of a
\* record that was submitted with the bytes b, uploading the bytes b2, records
\* hashMatch true exactly when b2 = b; the two digests it records are the
\* digests of b2 and of b, unaltered.
C20_SameDigest ==
  \A s \in Slots :
    (/\ reqs[s].kind = "verify"
     /\ reqs[s].pc \in {"write", "done"}
     /\ reqs[s].svc.success)
    => \A t \in Submitted :
         (/\ reqs[t].storeId = reqs[s].payload.originalSubmission.storeId
          /\ reqs[t].date = reqs[s].payload.originalSubmission.date)
         => (/\ reqs[s].payload.hashMatch = (reqs[s].file = reqs[t].file)
             /\ reqs[s].payload.uploadedHash = sha256hex(reqs[s].file)
             /\ reqs[s].payload.storedHash = sha256hex(reqs[t].file))

\* C20 witness: a verification that uploaded the submitted bytes has recorded
\* a match.
C20_Witness ==
  \E s \in Slots, t \in Submitted :
    /\ reqs[s].kind = "verify"
    /\ reqs[s].pc = "done"
    /\ reqs[s].svc.success
    /\ reqs[s].payload.hashMatch
    /\ reqs[s].file = "B2"
    /\ reqs[t].file = "B2"

\* ------------------------------------------------- concurrent admin calls
\* The backend after the seeded admin has granted admin to the seeded auditor
\* address at time 0: two admins, and the admin log event of the grant.
InitAdmins ==
  /\ InitContract
  /\ mockUsers = [a \in Addresses |-> IF a = CASHIER THEN "cashier" ELSE "admin"]
  /\ mockSalesRecords = EmptyMap
  /\ now = 0
  /\ reqs = [s \in Slots |-> Idle]
  /\ uploads = EmptyMap
  /\ metadata = EmptyMap
  /\ auditLogs = EmptyMap
  /\ adminLogs = MapSet(EmptyMap, AdminLogPath(0),
                   [action |-> "add_user", adminAddress |-> ADMIN,
                    targetAddress |-> AUDITOR, role |-> "admin", timestamp |-> 0])

\* N concurrent add-user and remove-user requests of the two admins
NextAdmins ==
  \/ \E s \in Slots : Receive(s, {ADMIN, AUDITOR})
  \/ \E s \in Slots : MwAdmin(s, {"add-user", "remove-user"})
  \/ \E s \in Slots : MwAuditor(s, {"add-user", "remove-user"})
  \/ \E s \in Slots : MwCashier(s, {"add-user", "remove-user"})
  \/ \E s \in Slots : AdminContinue(s)
  \/ \E s \in Slots : WriteFile(s)
  \/ Tick

SpecAdmins == InitAdmins /\ [][NextAdmins]_vars

\* the service call of slot s has returned
PastCall(r) == r.pc \in {"called", "write", "done"} /\ r.svc # NoResponse

\* slots s and t ask to remove each other's caller
Mutual(s, t) ==
  /\ s # t
  /\ reqs'[s].kind = "remove-user"
  /\ reqs'[t].kind = "remove-user"
  /\ reqs'[s].addr # reqs'[t].addr
  /\ reqs'[s].userAddress = reqs'[t].addr
  /\ reqs'[t].userAddress = reqs'[s].addr

\* C21: the identity store changes only by one whole addUser or removeUser
\* call per step, so concurrent requests take effect in the order of their
\* service calls; a removal of another address leaves its caller admin; and
\* of two admins' requests that remove each other, once one has succeeded the
\* other's call fails and changes nothing, unless a later request has granted
\* its caller admin again.
C21_AdminCallsSerialized ==
  [][/\ mockUsers' # mockUsers
          => \E s \in Slots :
               \/ /\ Calls(s, "add-user")
                  /\ mockUsers' = addUser(reqs'[s].userAddress, reqs'[s].role,
                                          reqs'[s].addr).users
               \/ /\ Calls(s, "remove-user")
                  /\ mockUsers' = removeUser(reqs'[s].userAddress, reqs'[s].addr).users
     /\ \A s \in Slots :
          (Calls(s, "remove-user") /\ reqs'[s].svc.success
             /\ reqs'[s].userAddress # reqs'[s].addr)
          => UsersGet(mockUsers', reqs'[s].addr) = "admin"
     /\ \A s, t \in Slots :
          (Calls(t, "remove-user") /\ Mutual(s, t)
             /\ PastCall(reqs[s]) /\ reqs[s].svc.success
             /\ UsersGet(mockUsers, reqs[t].addr) # "admin")
          => (/\ ~reqs'[t].svc.success
              /\ mockUsers' = mockUsers)]_vars

\* C21 witness: two admins asked to remove each other while both held admin;
\* one removal succeeded, the other was refused, and the winner is admin.
C21_Witness ==
  \E s, t \in Slots :
    /\ s # t
    /\ reqs[s].kind = "remove-user" /\ reqs[t].kind = "remove-user"
    /\ reqs[s].userRole = "admin" /\ reqs[t].userRole = "admin"
    /\ reqs[s].userAddress = reqs[t].addr
    /\ reqs[t].userAddress = reqs[s].addr
    /\ reqs[s].addr # reqs[t].addr
    /\ reqs[s].pc = "done" /\ reqs[t].pc = "done"
    /\ reqs[s].svc.success
    /\ ~reqs[t].svc.success
    /\ UsersGet(mockUsers, reqs[s].addr) = "admin"

\* C22: a submit-sales, add-user or remove-user request that has been answered
\* with a failure (a status other than 200, or success false) has changed
\* neither the identity store nor the ledger, also when the write of the
\* metadata or admin log file failed.
C22_AllOrNothing ==
  \A s \in Slots :
    (/\ reqs[s].pc = "done"
     /\ reqs[s].kind \in {"submit-sales", "add-user", "remove-user"}
     /\ (reqs[s].out.status # 200 \/ ~reqs[s].out.success))
    => ~reqs[s].svc.success

\* the number of identities that hold the role
CountRole(role) == Cardinality({a \in DOMAIN mockUsers : mockUsers[a] = role})

\* C23: with the requests served one after another, the statistics answer
\* gives for each role the number of identities that hold it, users.total as
\* their sum, salesRecords.total as the number of records in the ledger and a
\* thisMonth that is at most that total; no step of a statistics request
\* changes the identity store, the ledger or any file.
C23_StatsView ==
  [][\A s \in Slots :
       /\ (Steps(s) /\ reqs'[s].kind = "stats")
          => UNCHANGED <<svcVars, fileVars>>
       /\ (Steps(s) /\ reqs[s].kind = "stats" /\ reqs[s].pc = "called")
          => LET view == reqs'[s].payload IN
             /\ reqs'[s].pc = "done"
             /\ reqs'[s].out.status = 200
             /\ view.admins = CountRole("admin")
             /\ view.auditors = CountRole("auditor")
             /\ view.cashiers = CountRole("cashier")
             /\ view.total = view.admins + view.auditors + view.cashiers
             /\ view.total = Cardinality(DOMAIN mockUsers)
             /\ view.salesTotal = Cardinality(DOMAIN mockSalesRecords)
             /\ view.thisMonth <= view.salesTotal]_vars

\* C23 witness: a statistics request was answered after a grant and counts
\* four identities, two of them cashiers.
C23_Witness ==
  \E s \in Slots :
    /\ reqs[s].kind = "stats"
    /\ reqs[s].pc = "done"
    /\ reqs[s].out.status = 200
    /\ reqs[s].payload.total = 4
    /\ reqs[s].payload.cashiers = 2
    /\ reqs[s].payload.salesTotal = 0

\* ------------------------------------- verifications and role management
\* The three hasRole calls of authMiddleware resolve without I/O, so no other
\* handler runs while a request is inside the middleware.
MiddlewareFree == \A t \in Slots : ~InMiddleware(reqs[t])

\* N concurrent requests: POST /verify of the seeded auditor, and add-user or
\* remove-user of the seeded admin, from the state with one record; the
\* handlers interleave at their awaits of I/O and of the service
NextRevoke ==
  \/ \E s \in Slots : MiddlewareFree /\ Receive(s, {AUDITOR, ADMIN})
  \/ \E s \in Slots : MwAdmin(s, {"verify", "add-user", "remove-user"})
  \/ \E s \in Slots : MwAuditor(s, {"verify", "add-user", "remove-user"})
  \/ \E s \in Slots : MwCashier(s, {"verify", "add-user", "remove-user"})
  \/ \E s \in Slots : MiddlewareFree /\ AdminContinue(s)
  \/ \E s \in Slots : MiddlewareFree /\ VerifyUpload(s)
  \/ \E s \in Slots : MiddlewareFree /\ VerifyContinue(s)
  \/ \E s \in Slots : MiddlewareFree /\ WriteFile(s)
  \/ Tick

SpecRevoke == InitVerify /\ [][NextRevoke]_vars

\* C24: a step that writes an audit event is taken only for a caller that
\* holds auditor in the identity store at that step.
C24_AuditorAtWrite ==
  [][\A s \in Slots :
       (Steps(s) /\ reqs[s].kind = "verify" /\ auditLogs' # auditLogs)
       => UsersGet(mockUsers, reqs[s].addr) = "auditor"]_vars

\* C25: in SecurePOSModule, adminAddresses is the set of the addresses whose
\* userRoles entry has the role admin.
C25_AdminAddressesExact ==
  adminAddresses = {a \in DOMAIN userRoles : userRoles[a].role = "admin"}

\* GET /submissions: the metadata files whose submittedBy is the caller
Submissions(userAddress) ==
  {metadata[p] : p \in {x \in DOMAIN metadata : metadata[x].submittedBy = userAddress}}

\* no request is in flight
Quiet == \A s \in Slots : reqs[s].pc \in {"idle", "done"}

\* C26: when no request is in flight, every record of the ledger has exactly
\* one metadata entry with its storeId, date, hash and submittedBy, and the
\* submissions listed for an address are exactly the records it submitted.
C26_MetadataMirrorsLedger ==
  Quiet =>
    /\ \A k \in DOMAIN mockSalesRecords :
         LET rec == mockSalesRecords[k] IN
         Cardinality({p \in DOMAIN metadata :
                        /\ metadata[p].storeId = rec.storeId
                        /\ metadata[p].date = rec.date
                        /\ metadata[p].hash = rec.hash
                        /\ metadata[p].submittedBy = rec.submittedBy}) = 1
    /\ \A a \in HeaderAddresses :
         {[storeId |-> m.storeId, date |-> m.date, hash |-> m.hash] : m \in Submissions(a)}
           = {[storeId |-> mockSalesRecords[k].storeId, date |-> mockSalesRecords[k].date,
               hash |-> mockSalesRecords[k].hash] :
                k \in {x \in DOMAIN mockSalesRecords : mockSalesRecords[x].submittedBy = a}}

\* ----------------------------------- the mock service beside the contract
\* The endpoints of SecurePOSModule as functions of its state: the outcome of
\* the call and the fields after it.
Contract_submitSalesHash(storeId, date, hash, senderAddress) ==
  LET key == RecordKey(storeId, date) IN
  IF ~hasRoleInternal(senderAddress, "cashier") THEN [success |-> FALSE, records |-> salesRecords]
  ELSE IF storeId = "" \/ date = "" \/ hash = "" THEN [success |-> FALSE, records |-> salesRecords]
  ELSE IF MapHas(salesRecords, key) THEN [success |-> FALSE, records |-> salesRecords]
  ELSE [success |-> TRUE,
        records |-> MapSet(salesRecords, key,
                      [storeId |-> storeId, date |-> date, hash |-> hash,
                       timestamp |-> now, submittedBy |-> senderAddress])]

Contract_getSalesHash(storeId, date) ==
  IF storeId = "" \/ date = "" THEN [success |-> FALSE, data |-> NoRecord]
  ELSE IF ~MapHas(salesRecords, RecordKey(storeId, date)) THEN [success |-> FALSE, data |-> NoRecord]
  ELSE [success |-> TRUE, data |-> salesRecords[RecordKey(storeId, date)]]

Contract_addUser(userAddress, role, senderAddress) ==
  IF ~hasRoleInternal(senderAddress, "admin")
  THEN [success |-> FALSE, roles |-> userRoles, admins |-> adminAddresses]
  ELSE IF role \notin {"admin", "auditor", "cashier"}
  THEN [success |-> FALSE, roles |-> userRoles, admins |-> adminAddresses]
  ELSE [success |-> TRUE,
        roles |-> MapSet(userRoles, userAddress,
                    [address |-> userAddress, role |-> role,
                     addedBy |-> senderAddress, timestamp |-> now]),
        admins |-> IF role = "admin" THEN adminAddresses \cup {userAddress}
                   ELSE adminAddresses]

Contract_removeUser(userAddress, senderAddress) ==
  IF ~hasRoleInternal(senderAddress, "admin")
  THEN [success |-> FALSE, roles |-> userRoles, admins |-> adminAddresses]
  ELSE IF userAddress = senderAddress /\ Cardinality(adminAddresses) = 1
  THEN [success |-> FALSE, roles |-> userRoles, admins |-> adminAddresses]
  ELSE IF MapHas(userRoles, userAddress)
  THEN [success |-> TRUE,
        roles |-> MapDelete(userRoles, userAddress),
        admins |-> IF userRoles[userAddress].role = "admin"
                   THEN adminAddresses \ {userAddress} ELSE adminAddresses]
  ELSE [success |-> FALSE, roles |-> userRoles, admins |-> adminAddresses]

Contract_hasRole(userAddress, role) ==
  [success |-> TRUE, hasRole |-> hasRoleInternal(userAddress, role)]

Contract_getAllSalesRecords(senderAddress) ==
  IF ~hasRoleInternal(senderAddress, "admin") THEN [success |-> FALSE, data |-> {}]
  ELSE [success |-> TRUE, data |-> {salesRecords[k] : k \in DOMAIN salesRecords}]

\* the outcomes of one call made on both: of the contract and of the mock
Both(op, contractOk, mockOk, contractData, mockData) ==
  /\ calls < MaxCalls
  /\ calls' = calls + 1
  /\ ret' = [op |-> op, success |-> contractOk, mock |-> mockOk,
             data |-> contractData, mockData |-> mockData]

TwinSubmitSalesHash ==
  \E storeId \in BodyStoreIds, date \in Dates, hash \in Hashes, senderAddress \in Addresses :
    LET c == Contract_submitSalesHash(storeId, date, hash, senderAddress)
        m == submitSalesHash(storeId, date, hash, senderAddress) IN
    /\ Both("submitSalesHash", c.success, m.res.success, {}, {})
    /\ salesRecords' = c.records
    /\ mockSalesRecords' = m.records
    /\ UNCHANGED <<userRoles, adminAddresses, mockUsers, now, reqs, fileVars>>

TwinGetSalesHash ==
  \E storeId \in BodyStoreIds, date \in Dates :
    LET c == Contract_getSalesHash(storeId, date)
        m == getSalesHash(storeId, date) IN
    /\ Both("getSalesHash", c.success, m.success, {c.data}, {m.data})
    /\ UNCHANGED <<userRoles, adminAddresses, salesRecords, svcVars, now, reqs, fileVars>>

TwinAddUser ==
  \E userAddress \in Addresses, role \in BodyRoles, senderAddress \in Addresses :
    LET c == Contract_addUser(userAddress, role, senderAddress)
        m == addUser(userAddress, role, senderAddress) IN
    /\ Both("addUser", c.success, m.res.success, {}, {})
    /\ userRoles' = c.roles
    /\ adminAddresses' = c.admins
    /\ mockUsers' = m.users
    /\ UNCHANGED <<salesRecords, mockSalesRecords, now, reqs, fileVars>>

TwinRemoveUser ==
  \E userAddress \in Addresses, senderAddress \in Addresses :
    LET c == Contract_removeUser(userAddress, senderAddress)
        m == removeUser(userAddress, senderAddress) IN
    /\ Both("removeUser", c.success, m.res.success, {}, {})
    /\ userRoles' = c.roles
    /\ adminAddresses' = c.admins
    /\ mockUsers' = m.users
    /\ UNCHANGED <<salesRecords, mockSalesRecords, now, reqs, fileVars>>

TwinHasRole ==
  \E userAddress \in Addresses, role \in BodyRoles :
    LET c == Contract_hasRole(userAddress, role)
        m == hasRole(userAddress, role) IN
    /\ Both("hasRole", c.success /\ c.hasRole, m.success /\ m.hasRole, {}, {})
    /\ UNCHANGED <<userRoles, adminAddresses, salesRecords, svcVars, now, reqs, fileVars>>

TwinGetAllSalesRecords ==
  \E senderAddress \in Addresses :
    LET c == Contract_getAllSalesRecords(senderAddress)
        m == getAllSalesRecords(senderAddress) IN
    /\ Both("getAllSalesRecords", c.success, m.success, c.data, m.data)
    /\ UNCHANGED <<userRoles, adminAddresses, salesRecords, svcVars, now, reqs, fileVars>>

\* Both start from the seeded identities of the mock: the contract after
\* init and the deployer's grants of auditor and cashier.
InitTwin ==
  /\ InitBackend
  /\ userRoles = [a \in Addresses |->
                    [address |-> a, role |-> UsersGet(mockUsers, a),
                     addedBy |-> ADMIN, timestamp |-> 0]]
  /\ adminAddresses = {ADMIN}
  /\ salesRecords = EmptyMap
  /\ ret = NoRet
  /\ calls = 0

NextTwin ==
  \/ TwinSubmitSalesHash
  \/ TwinGetSalesHash
  \/ TwinAddUser
  \/ TwinRemoveUser
  \/ TwinHasRole
  \/ TwinGetAllSalesRecords
  \/ Tick

SpecTwin == InitTwin /\ [][NextTwin]_vars

\* C27: run on the same calls from the same identities, the contract and the
\* mock service give the same outcome and the same data for every call and
\* hold the same roles and the same sales records afterwards.
C27_SameStateMachine ==
  /\ ret.op # "" => (ret.success = ret.mock /\ ret.data = ret.mockData)
  /\ mockUsers = [a \in DOMAIN userRoles |-> userRoles[a].role]
  /\ {mockSalesRecords[k] : k \in DOMAIN mockSalesRecords}
       = {salesRecords[k] : k \in DOMAIN salesRecords}

\* ------------------------------------------------ requests and re-grants
\* N concurrent POST /add-user requests of the seeded addresses, interleaved
\* at every await. No identity is removed: a seeded address holds some role in
\* every state.
NextRegrant ==
  \/ \E s \in Slots : Receive(s, Addresses)
  \/ \E s \in Slots : MwAdmin(s, {"add-user"})
  \/ \E s \in Slots : MwAuditor(s, {"add-user"})
  \/ \E s \in Slots : MwCashier(s, {"add-user"})
  \/ \E s \in Slots : AdminContinue(s)
  \/ \E s \in Slots : WriteFile(s)
  \/ Tick

SpecRegrant == Init /\ [][NextRegrant]_vars

\* C28: a request of an address that holds some role in every state is never
\* answered with the no-valid-role refusal, also when addUser re-grants the
\* address between the hasRole checks of the middleware.
C28_NeverNoRole ==
  /\ \A a \in Addresses : UsersGet(mockUsers, a) \in Roles
  /\ \A s \in Slots :
       reqs[s].addr \in Addresses => reqs[s].out.message # NoRoleMessage

\* ---------------------------------------------------------- UI session
\* AuthProvider keeps the session in its user state and in localStorage;
\* here it is held in ret: op "login" while a session is stored.
\* GET /api/health answers 'healthy' to every caller, whatever its header.
Health == "healthy"

\* the role login stores: read from the address itself, 'cashier' by default
LoginRole(address) ==
  IF address = ADMIN THEN "admin"
  ELSE IF address = AUDITOR THEN "auditor"
  ELSE IF address = CASHIER THEN "cashier"
  ELSE "cashier"

login(address) ==
  /\ Health = "healthy"
  /\ ret' = [NoRet EXCEPT !.op = "login", !.success = TRUE,
                          !.message = address, !.role = LoginRole(address)]
  /\ UNCHANGED <<userRoles, adminAddresses, salesRecords, calls, now, backendVars>>

logout ==
  /\ ret.op = "login"
  /\ ret' = NoRet
  /\ UNCHANGED <<userRoles, adminAddresses, salesRecords, calls, now, backendVars>>

\* the UI beside the backend: admin requests change the identity store while
\* addresses log in and out
NextLogin ==
  \/ \E address \in HeaderAddresses : login(address)
  \/ logout
  \/ \E s \in Slots : Receive(s, Addresses)
  \/ \E s \in Slots : MwAdmin(s, {"add-user", "remove-user"})
  \/ \E s \in Slots : MwAuditor(s, {"add-user", "remove-user"})
  \/ \E s \in Slots : MwCashier(s, {"add-user", "remove-user"})
  \/ \E s \in Slots : AdminContinue(s)
  \/ \E s \in Slots : WriteFile(s)
  \/ Tick

SpecLogin == Init /\ [][NextLogin]_vars

\* C29: the role of the stored UI session is the role the identity store
\* holds for the session's address.
C29_SessionRole ==
  ret.op = "login" => UsersGet(mockUsers, ret.message) = ret.role

\* C30: when no request is in flight, every file of the sales upload
\* directory is the file of a submission that succeeded on the ledger.
C30_NoOrphanUpload ==
  Quiet =>
    \A name \in DOMAIN uploads :
      \E s \in Slots : /\ reqs[s].kind = "submit-sales"
                       /\ reqs[s].pc = "done"
                       /\ reqs[s].path = name
                       /\ reqs[s].svc.success

====
